---- MODULE Spec2Model ----
(* Model of scripts/handwriting_ocr.py: a one-shot command-line helper     *)
(* that dispatches an image to one of three recognition paths (local       *)
(* engine, Google Vision, OpenAI responses) and maps every failure stage   *)
(* to an exit code.                                                        *)
(*                                                                         *)
(* A string is a tuple of Unicode code points, so that str.strip() and     *)
(* str.lower() are computed character by character and the encoder of      *)
(* sys.stdout is computed from the code point.  A JSON value is a          *)
(* record [k, v]: k is the kind ("null", "num", "str", "list", "obj") and  *)
(* v the payload (code points, elements, or <<key, value>> pairs in text   *)
(* order).  A body that json.loads rejects has kind "invalid".             *)
EXTENDS Integers, Sequences, FiniteSets, TLC

(***************************************************************************)
(* Bounds of the model                                                     *)
(***************************************************************************)
MaxItems == 2     \* longest `output` list of a generated response
MaxSegs == 2      \* most content segments of a generated response, all items together

(***************************************************************************)
(* Python strings (Unicode 14.0.0, the database of CPython 3.11)           *)
(***************************************************************************)
\* the characters str.strip() removes: every code point with str.isspace()
Whitespace ==
    { 9, 10, 11, 12, 13, 28, 29, 30, 31, 32, 133, 160, 5760,
      8192, 8193, 8194, 8195, 8196, 8197, 8198, 8199, 8200, 8201, 8202,
      8232, 8233, 8239, 8287, 12288 }

\* the simple lower-case mapping: <<first, last, step, delta>> maps every
\* code point first, first+step, ..., last to itself plus delta
LowerRuns ==
    { <<65, 90, 1, 32>>, <<192, 214, 1, 32>>, <<216, 222, 1, 32>>, <<256, 302, 2, 1>>,
      <<306, 310, 2, 1>>, <<313, 327, 2, 1>>, <<330, 374, 2, 1>>, <<376, 376, 1, -121>>,
      <<377, 381, 2, 1>>, <<385, 385, 1, 210>>, <<386, 388, 2, 1>>, <<390, 390, 1, 206>>,
      <<391, 391, 1, 1>>, <<393, 394, 1, 205>>, <<395, 395, 1, 1>>, <<398, 398, 1, 79>>,
      <<399, 399, 1, 202>>, <<400, 400, 1, 203>>, <<401, 401, 1, 1>>, <<403, 403, 1, 205>>,
      <<404, 404, 1, 207>>, <<406, 406, 1, 211>>, <<407, 407, 1, 209>>, <<408, 408, 1, 1>>,
      <<412, 412, 1, 211>>, <<413, 413, 1, 213>>, <<415, 415, 1, 214>>, <<416, 420, 2, 1>>,
      <<422, 422, 1, 218>>, <<423, 423, 1, 1>>, <<425, 425, 1, 218>>, <<428, 428, 1, 1>>,
      <<430, 430, 1, 218>>, <<431, 431, 1, 1>>, <<433, 434, 1, 217>>, <<435, 437, 2, 1>>,
      <<439, 439, 1, 219>>, <<440, 440, 1, 1>>, <<444, 444, 1, 1>>, <<452, 452, 1, 2>>,
      <<453, 453, 1, 1>>, <<455, 455, 1, 2>>, <<456, 456, 1, 1>>, <<458, 458, 1, 2>>,
      <<459, 475, 2, 1>>, <<478, 494, 2, 1>>, <<497, 497, 1, 2>>, <<498, 500, 2, 1>>,
      <<502, 502, 1, -97>>, <<503, 503, 1, -56>>, <<504, 542, 2, 1>>, <<544, 544, 1, -130>>,
      <<546, 562, 2, 1>>, <<570, 570, 1, 10795>>, <<571, 571, 1, 1>>, <<573, 573, 1, -163>>,
      <<574, 574, 1, 10792>>, <<577, 577, 1, 1>>, <<579, 579, 1, -195>>, <<580, 580, 1, 69>>,
      <<581, 581, 1, 71>>, <<582, 590, 2, 1>>, <<880, 882, 2, 1>>, <<886, 886, 1, 1>>,
      <<895, 895, 1, 116>>, <<902, 902, 1, 38>>, <<904, 906, 1, 37>>, <<908, 908, 1, 64>>,
      <<910, 911, 1, 63>>, <<913, 929, 1, 32>>, <<931, 939, 1, 32>>, <<975, 975, 1, 8>>,
      <<984, 1006, 2, 1>>, <<1012, 1012, 1, -60>>, <<1015, 1015, 1, 1>>, <<1017, 1017, 1, -7>>,
      <<1018, 1018, 1, 1>>, <<1021, 1023, 1, -130>>, <<1024, 1039, 1, 80>>, <<1040, 1071, 1, 32>>,
      <<1120, 1152, 2, 1>>, <<1162, 1214, 2, 1>>, <<1216, 1216, 1, 15>>, <<1217, 1229, 2, 1>>,
      <<1232, 1326, 2, 1>>, <<1329, 1366, 1, 48>>, <<4256, 4293, 1, 7264>>, <<4295, 4295, 1, 7264>>,
      <<4301, 4301, 1, 7264>>, <<5024, 5103, 1, 38864>>, <<5104, 5109, 1, 8>>, <<7312, 7354, 1, -3008>>,
      <<7357, 7359, 1, -3008>>, <<7680, 7828, 2, 1>>, <<7838, 7838, 1, -7615>>, <<7840, 7934, 2, 1>>,
      <<7944, 7951, 1, -8>>, <<7960, 7965, 1, -8>>, <<7976, 7983, 1, -8>>, <<7992, 7999, 1, -8>>,
      <<8008, 8013, 1, -8>>, <<8025, 8031, 2, -8>>, <<8040, 8047, 1, -8>>, <<8072, 8079, 1, -8>>,
      <<8088, 8095, 1, -8>>, <<8104, 8111, 1, -8>>, <<8120, 8121, 1, -8>>, <<8122, 8123, 1, -74>>,
      <<8124, 8124, 1, -9>>, <<8136, 8139, 1, -86>>, <<8140, 8140, 1, -9>>, <<8152, 8153, 1, -8>>,
      <<8154, 8155, 1, -100>>, <<8168, 8169, 1, -8>>, <<8170, 8171, 1, -112>>, <<8172, 8172, 1, -7>>,
      <<8184, 8185, 1, -128>>, <<8186, 8187, 1, -126>>, <<8188, 8188, 1, -9>>, <<8486, 8486, 1, -7517>>,
      <<8490, 8490, 1, -8383>>, <<8491, 8491, 1, -8262>>, <<8498, 8498, 1, 28>>, <<8544, 8559, 1, 16>>,
      <<8579, 8579, 1, 1>>, <<9398, 9423, 1, 26>>, <<11264, 11311, 1, 48>>, <<11360, 11360, 1, 1>>,
      <<11362, 11362, 1, -10743>>, <<11363, 11363, 1, -3814>>, <<11364, 11364, 1, -10727>>, <<11367, 11371, 2, 1>>,
      <<11373, 11373, 1, -10780>>, <<11374, 11374, 1, -10749>>, <<11375, 11375, 1, -10783>>, <<11376, 11376, 1, -10782>>,
      <<11378, 11378, 1, 1>>, <<11381, 11381, 1, 1>>, <<11390, 11391, 1, -10815>>, <<11392, 11490, 2, 1>>,
      <<11499, 11501, 2, 1>>, <<11506, 11506, 1, 1>>, <<42560, 42604, 2, 1>>, <<42624, 42650, 2, 1>>,
      <<42786, 42798, 2, 1>>, <<42802, 42862, 2, 1>>, <<42873, 42875, 2, 1>>, <<42877, 42877, 1, -35332>>,
      <<42878, 42886, 2, 1>>, <<42891, 42891, 1, 1>>, <<42893, 42893, 1, -42280>>, <<42896, 42898, 2, 1>>,
      <<42902, 42920, 2, 1>>, <<42922, 42922, 1, -42308>>, <<42923, 42923, 1, -42319>>, <<42924, 42924, 1, -42315>>,
      <<42925, 42925, 1, -42305>>, <<42926, 42926, 1, -42308>>, <<42928, 42928, 1, -42258>>, <<42929, 42929, 1, -42282>>,
      <<42930, 42930, 1, -42261>>, <<42931, 42931, 1, 928>>, <<42932, 42946, 2, 1>>, <<42948, 42948, 1, -48>>,
      <<42949, 42949, 1, -42307>>, <<42950, 42950, 1, -35384>>, <<42951, 42953, 2, 1>>, <<42960, 42960, 1, 1>>,
      <<42966, 42968, 2, 1>>, <<42997, 42997, 1, 1>>, <<65313, 65338, 1, 32>>, <<66560, 66599, 1, 40>>,
      <<66736, 66771, 1, 40>>, <<66928, 66938, 1, 39>>, <<66940, 66954, 1, 39>>, <<66956, 66962, 1, 39>>,
      <<66964, 66965, 1, 39>>, <<68736, 68786, 1, 64>>, <<71840, 71871, 1, 32>>, <<93760, 93791, 1, 32>>,
      <<125184, 125217, 1, 34>> }

InRun(c, r) == r[1] <= c /\ c <= r[2] /\ (c - r[1]) % r[3] = 0

\* the one code point whose lower case is two code points: U+0130, capital I
\* with dot above, becomes i followed by the combining dot above
LowerSpecial == { << 304, <<105, 775>> >> }

\* str.lower() of one character taken alone; the result may be longer
LowerChar(c) ==
    IF \E e \in LowerSpecial : e[1] = c
    THEN (CHOOSE e \in LowerSpecial : e[1] = c)[2]
    ELSE IF \E r \in LowerRuns : InRun(c, r)
    THEN << c + (CHOOSE r \in LowerRuns : InRun(c, r))[4] >>
    ELSE <<c>>

\* code points with the property Cased, as <<first, last>> ranges
CasedRanges ==
    { <<65, 90>>, <<97, 122>>, <<170, 170>>, <<181, 181>>, <<186, 186>>, <<192, 214>>,
      <<216, 246>>, <<248, 442>>, <<444, 447>>, <<452, 659>>, <<661, 696>>, <<704, 705>>,
      <<736, 740>>, <<837, 837>>, <<880, 883>>, <<886, 887>>, <<890, 893>>, <<895, 895>>,
      <<902, 902>>, <<904, 906>>, <<908, 908>>, <<910, 929>>, <<931, 1013>>, <<1015, 1153>>,
      <<1162, 1327>>, <<1329, 1366>>, <<1376, 1416>>, <<4256, 4293>>, <<4295, 4295>>, <<4301, 4301>>,
      <<4304, 4346>>, <<4349, 4351>>, <<5024, 5109>>, <<5112, 5117>>, <<7296, 7304>>, <<7312, 7354>>,
      <<7357, 7359>>, <<7424, 7615>>, <<7680, 7957>>, <<7960, 7965>>, <<7968, 8005>>, <<8008, 8013>>,
      <<8016, 8023>>, <<8025, 8025>>, <<8027, 8027>>, <<8029, 8029>>, <<8031, 8061>>, <<8064, 8116>>,
      <<8118, 8124>>, <<8126, 8126>>, <<8130, 8132>>, <<8134, 8140>>, <<8144, 8147>>, <<8150, 8155>>,
      <<8160, 8172>>, <<8178, 8180>>, <<8182, 8188>>, <<8305, 8305>>, <<8319, 8319>>, <<8336, 8348>>,
      <<8450, 8450>>, <<8455, 8455>>, <<8458, 8467>>, <<8469, 8469>>, <<8473, 8477>>, <<8484, 8484>>,
      <<8486, 8486>>, <<8488, 8488>>, <<8490, 8493>>, <<8495, 8500>>, <<8505, 8505>>, <<8508, 8511>>,
      <<8517, 8521>>, <<8526, 8526>>, <<8544, 8575>>, <<8579, 8580>>, <<9398, 9449>>, <<11264, 11492>>,
      <<11499, 11502>>, <<11506, 11507>>, <<11520, 11557>>, <<11559, 11559>>, <<11565, 11565>>, <<42560, 42605>>,
      <<42624, 42653>>, <<42786, 42887>>, <<42891, 42894>>, <<42896, 42954>>, <<42960, 42961>>, <<42963, 42963>>,
      <<42965, 42969>>, <<42997, 42998>>, <<43000, 43002>>, <<43824, 43866>>, <<43868, 43880>>, <<43888, 43967>>,
      <<64256, 64262>>, <<64275, 64279>>, <<65313, 65338>>, <<65345, 65370>>, <<66560, 66639>>, <<66736, 66771>>,
      <<66776, 66811>>, <<66928, 66938>>, <<66940, 66954>>, <<66956, 66962>>, <<66964, 66965>>, <<66967, 66977>>,
      <<66979, 66993>>, <<66995, 67001>>, <<67003, 67004>>, <<67456, 67456>>, <<67459, 67461>>, <<67463, 67504>>,
      <<67506, 67514>>, <<68736, 68786>>, <<68800, 68850>>, <<71840, 71903>>, <<93760, 93823>>, <<119808, 119892>>,
      <<119894, 119964>>, <<119966, 119967>>, <<119970, 119970>>, <<119973, 119974>>, <<119977, 119980>>, <<119982, 119993>>,
      <<119995, 119995>>, <<119997, 120003>>, <<120005, 120069>>, <<120071, 120074>>, <<120077, 120084>>, <<120086, 120092>>,
      <<120094, 120121>>, <<120123, 120126>>, <<120128, 120132>>, <<120134, 120134>>, <<120138, 120144>>, <<120146, 120485>>,
      <<120488, 120512>>, <<120514, 120538>>, <<120540, 120570>>, <<120572, 120596>>, <<120598, 120628>>, <<120630, 120654>>,
      <<120656, 120686>>, <<120688, 120712>>, <<120714, 120744>>, <<120746, 120770>>, <<120772, 120779>>, <<122624, 122633>>,
      <<122635, 122654>>, <<125184, 125251>>, <<127280, 127305>>, <<127312, 127337>>, <<127344, 127369>> }

\* code points with the property Case_Ignorable, as <<first, last>> ranges
CaseIgnorableRanges ==
    { <<39, 39>>, <<46, 46>>, <<58, 58>>, <<94, 94>>, <<96, 96>>, <<168, 168>>,
      <<173, 173>>, <<175, 175>>, <<180, 180>>, <<183, 184>>, <<688, 879>>, <<884, 885>>,
      <<890, 890>>, <<900, 901>>, <<903, 903>>, <<1155, 1161>>, <<1369, 1369>>, <<1375, 1375>>,
      <<1425, 1469>>, <<1471, 1471>>, <<1473, 1474>>, <<1476, 1477>>, <<1479, 1479>>, <<1524, 1524>>,
      <<1536, 1541>>, <<1552, 1562>>, <<1564, 1564>>, <<1600, 1600>>, <<1611, 1631>>, <<1648, 1648>>,
      <<1750, 1757>>, <<1759, 1768>>, <<1770, 1773>>, <<1807, 1807>>, <<1809, 1809>>, <<1840, 1866>>,
      <<1958, 1968>>, <<2027, 2037>>, <<2042, 2042>>, <<2045, 2045>>, <<2070, 2093>>, <<2137, 2139>>,
      <<2184, 2184>>, <<2192, 2193>>, <<2200, 2207>>, <<2249, 2306>>, <<2362, 2362>>, <<2364, 2364>>,
      <<2369, 2376>>, <<2381, 2381>>, <<2385, 2391>>, <<2402, 2403>>, <<2417, 2417>>, <<2433, 2433>>,
      <<2492, 2492>>, <<2497, 2500>>, <<2509, 2509>>, <<2530, 2531>>, <<2558, 2558>>, <<2561, 2562>>,
      <<2620, 2620>>, <<2625, 2626>>, <<2631, 2632>>, <<2635, 2637>>, <<2641, 2641>>, <<2672, 2673>>,
      <<2677, 2677>>, <<2689, 2690>>, <<2748, 2748>>, <<2753, 2757>>, <<2759, 2760>>, <<2765, 2765>>,
      <<2786, 2787>>, <<2810, 2815>>, <<2817, 2817>>, <<2876, 2876>>, <<2879, 2879>>, <<2881, 2884>>,
      <<2893, 2893>>, <<2901, 2902>>, <<2914, 2915>>, <<2946, 2946>>, <<3008, 3008>>, <<3021, 3021>>,
      <<3072, 3072>>, <<3076, 3076>>, <<3132, 3132>>, <<3134, 3136>>, <<3142, 3144>>, <<3146, 3149>>,
      <<3157, 3158>>, <<3170, 3171>>, <<3201, 3201>>, <<3260, 3260>>, <<3263, 3263>>, <<3270, 3270>>,
      <<3276, 3277>>, <<3298, 3299>>, <<3328, 3329>>, <<3387, 3388>>, <<3393, 3396>>, <<3405, 3405>>,
      <<3426, 3427>>, <<3457, 3457>>, <<3530, 3530>>, <<3538, 3540>>, <<3542, 3542>>, <<3633, 3633>>,
      <<3636, 3642>>, <<3654, 3662>>, <<3761, 3761>>, <<3764, 3772>>, <<3782, 3782>>, <<3784, 3789>>,
      <<3864, 3865>>, <<3893, 3893>>, <<3895, 3895>>, <<3897, 3897>>, <<3953, 3966>>, <<3968, 3972>>,
      <<3974, 3975>>, <<3981, 3991>>, <<3993, 4028>>, <<4038, 4038>>, <<4141, 4144>>, <<4146, 4151>>,
      <<4153, 4154>>, <<4157, 4158>>, <<4184, 4185>>, <<4190, 4192>>, <<4209, 4212>>, <<4226, 4226>>,
      <<4229, 4230>>, <<4237, 4237>>, <<4253, 4253>>, <<4348, 4348>>, <<4957, 4959>>, <<5906, 5908>>,
      <<5938, 5939>>, <<5970, 5971>>, <<6002, 6003>>, <<6068, 6069>>, <<6071, 6077>>, <<6086, 6086>>,
      <<6089, 6099>>, <<6103, 6103>>, <<6109, 6109>>, <<6155, 6159>>, <<6211, 6211>>, <<6277, 6278>>,
      <<6313, 6313>>, <<6432, 6434>>, <<6439, 6440>>, <<6450, 6450>>, <<6457, 6459>>, <<6679, 6680>>,
      <<6683, 6683>>, <<6742, 6742>>, <<6744, 6750>>, <<6752, 6752>>, <<6754, 6754>>, <<6757, 6764>>,
      <<6771, 6780>>, <<6783, 6783>>, <<6823, 6823>>, <<6832, 6862>>, <<6912, 6915>>, <<6964, 6964>>,
      <<6966, 6970>>, <<6972, 6972>>, <<6978, 6978>>, <<7019, 7027>>, <<7040, 7041>>, <<7074, 7077>>,
      <<7080, 7081>>, <<7083, 7085>>, <<7142, 7142>>, <<7144, 7145>>, <<7149, 7149>>, <<7151, 7153>>,
      <<7212, 7219>>, <<7222, 7223>>, <<7288, 7293>>, <<7376, 7378>>, <<7380, 7392>>, <<7394, 7400>>,
      <<7405, 7405>>, <<7412, 7412>>, <<7416, 7417>>, <<7468, 7530>>, <<7544, 7544>>, <<7579, 7679>>,
      <<8125, 8125>>, <<8127, 8129>>, <<8141, 8143>>, <<8157, 8159>>, <<8173, 8175>>, <<8189, 8190>>,
      <<8203, 8207>>, <<8216, 8217>>, <<8228, 8228>>, <<8231, 8231>>, <<8234, 8238>>, <<8288, 8292>>,
      <<8294, 8303>>, <<8305, 8305>>, <<8319, 8319>>, <<8336, 8348>>, <<8400, 8432>>, <<11388, 11389>>,
      <<11503, 11505>>, <<11631, 11631>>, <<11647, 11647>>, <<11744, 11775>>, <<11823, 11823>>, <<12293, 12293>>,
      <<12330, 12333>>, <<12337, 12341>>, <<12347, 12347>>, <<12441, 12446>>, <<12540, 12542>>, <<40981, 40981>>,
      <<42232, 42237>>, <<42508, 42508>>, <<42607, 42610>>, <<42612, 42621>>, <<42623, 42623>>, <<42652, 42655>>,
      <<42736, 42737>>, <<42752, 42785>>, <<42864, 42864>>, <<42888, 42890>>, <<42994, 42996>>, <<43000, 43001>>,
      <<43010, 43010>>, <<43014, 43014>>, <<43019, 43019>>, <<43045, 43046>>, <<43052, 43052>>, <<43204, 43205>>,
      <<43232, 43249>>, <<43263, 43263>>, <<43302, 43309>>, <<43335, 43345>>, <<43392, 43394>>, <<43443, 43443>>,
      <<43446, 43449>>, <<43452, 43453>>, <<43471, 43471>>, <<43493, 43494>>, <<43561, 43566>>, <<43569, 43570>>,
      <<43573, 43574>>, <<43587, 43587>>, <<43596, 43596>>, <<43632, 43632>>, <<43644, 43644>>, <<43696, 43696>>,
      <<43698, 43700>>, <<43703, 43704>>, <<43710, 43711>>, <<43713, 43713>>, <<43741, 43741>>, <<43756, 43757>>,
      <<43763, 43764>>, <<43766, 43766>>, <<43867, 43871>>, <<43881, 43883>>, <<44005, 44005>>, <<44008, 44008>>,
      <<44013, 44013>>, <<64286, 64286>>, <<64434, 64450>>, <<65024, 65039>>, <<65043, 65043>>, <<65056, 65071>>,
      <<65106, 65106>>, <<65109, 65109>>, <<65279, 65279>>, <<65287, 65287>>, <<65294, 65294>>, <<65306, 65306>>,
      <<65342, 65342>>, <<65344, 65344>>, <<65392, 65392>>, <<65438, 65439>>, <<65507, 65507>>, <<65529, 65531>>,
      <<66045, 66045>>, <<66272, 66272>>, <<66422, 66426>>, <<67456, 67461>>, <<67463, 67504>>, <<67506, 67514>>,
      <<68097, 68099>>, <<68101, 68102>>, <<68108, 68111>>, <<68152, 68154>>, <<68159, 68159>>, <<68325, 68326>>,
      <<68900, 68903>>, <<69291, 69292>>, <<69446, 69456>>, <<69506, 69509>>, <<69633, 69633>>, <<69688, 69702>>,
      <<69744, 69744>>, <<69747, 69748>>, <<69759, 69761>>, <<69811, 69814>>, <<69817, 69818>>, <<69821, 69821>>,
      <<69826, 69826>>, <<69837, 69837>>, <<69888, 69890>>, <<69927, 69931>>, <<69933, 69940>>, <<70003, 70003>>,
      <<70016, 70017>>, <<70070, 70078>>, <<70089, 70092>>, <<70095, 70095>>, <<70191, 70193>>, <<70196, 70196>>,
      <<70198, 70199>>, <<70206, 70206>>, <<70367, 70367>>, <<70371, 70378>>, <<70400, 70401>>, <<70459, 70460>>,
      <<70464, 70464>>, <<70502, 70508>>, <<70512, 70516>>, <<70712, 70719>>, <<70722, 70724>>, <<70726, 70726>>,
      <<70750, 70750>>, <<70835, 70840>>, <<70842, 70842>>, <<70847, 70848>>, <<70850, 70851>>, <<71090, 71093>>,
      <<71100, 71101>>, <<71103, 71104>>, <<71132, 71133>>, <<71219, 71226>>, <<71229, 71229>>, <<71231, 71232>>,
      <<71339, 71339>>, <<71341, 71341>>, <<71344, 71349>>, <<71351, 71351>>, <<71453, 71455>>, <<71458, 71461>>,
      <<71463, 71467>>, <<71727, 71735>>, <<71737, 71738>>, <<71995, 71996>>, <<71998, 71998>>, <<72003, 72003>>,
      <<72148, 72151>>, <<72154, 72155>>, <<72160, 72160>>, <<72193, 72202>>, <<72243, 72248>>, <<72251, 72254>>,
      <<72263, 72263>>, <<72273, 72278>>, <<72281, 72283>>, <<72330, 72342>>, <<72344, 72345>>, <<72752, 72758>>,
      <<72760, 72765>>, <<72767, 72767>>, <<72850, 72871>>, <<72874, 72880>>, <<72882, 72883>>, <<72885, 72886>>,
      <<73009, 73014>>, <<73018, 73018>>, <<73020, 73021>>, <<73023, 73029>>, <<73031, 73031>>, <<73104, 73105>>,
      <<73109, 73109>>, <<73111, 73111>>, <<73459, 73460>>, <<78896, 78904>>, <<92912, 92916>>, <<92976, 92982>>,
      <<92992, 92995>>, <<94031, 94031>>, <<94095, 94111>>, <<94176, 94177>>, <<94179, 94180>>, <<110576, 110579>>,
      <<110581, 110587>>, <<110589, 110590>>, <<113821, 113822>>, <<113824, 113827>>, <<118528, 118573>>, <<118576, 118598>>,
      <<119143, 119145>>, <<119155, 119170>>, <<119173, 119179>>, <<119210, 119213>>, <<119362, 119364>>, <<121344, 121398>>,
      <<121403, 121452>>, <<121461, 121461>>, <<121476, 121476>>, <<121499, 121503>>, <<121505, 121519>>, <<122880, 122886>>,
      <<122888, 122904>>, <<122907, 122913>>, <<122915, 122916>>, <<122918, 122922>>, <<123184, 123197>>, <<123566, 123566>>,
      <<123628, 123631>>, <<125136, 125142>>, <<125252, 125259>>, <<127995, 127999>>, <<917505, 917505>>, <<917536, 917631>>,
      <<917760, 917999>> }

Cased(c) == \E r \in CasedRanges : r[1] <= c /\ c <= r[2]
CaseIgnorable(c) == \E r \in CaseIgnorableRanges : r[1] <= c /\ c <= r[2]

CapitalSigma == 931
SmallSigma == 963
SmallFinalSigma == 962

\* the capital sigma at s[i] ends a word: going back over case-ignorable
\* characters there is a cased one, and going forward over case-ignorable
\* characters there is none
FinalSigma(s, i) ==
    /\ \E j \in 1..(i - 1) :
          /\ ~CaseIgnorable(s[j]) /\ Cased(s[j])
          /\ \A m \in (j + 1)..(i - 1) : CaseIgnorable(s[m])
    /\ ~ \E j \in (i + 1)..Len(s) :
          /\ ~CaseIgnorable(s[j]) /\ Cased(s[j])
          /\ \A m \in (i + 1)..(j - 1) : CaseIgnorable(s[m])

\* what str.lower() makes of s[i]
LowerAt(s, i) ==
    IF s[i] = CapitalSigma
    THEN << IF FinalSigma(s, i) THEN SmallFinalSigma ELSE SmallSigma >>
    ELSE LowerChar(s[i])

RECURSIVE LowerFrom(_, _)
LowerFrom(s, i) == IF i > Len(s) THEN <<>> ELSE LowerAt(s, i) \o LowerFrom(s, i + 1)

\* str.lower()
Lower(s) == LowerFrom(s, 1)

RECURSIVE LStrip(_)
LStrip(s) ==
    IF s = <<>> THEN <<>>
    ELSE IF Head(s) \in Whitespace THEN LStrip(Tail(s)) ELSE s

RECURSIVE RStrip(_)
RStrip(s) ==
    IF s = <<>> THEN <<>>
    ELSE IF s[Len(s)] \in Whitespace THEN RStrip(SubSeq(s, 1, Len(s) - 1)) ELSE s

\* str.strip(): whitespace is removed from the two ends only
Strip(s) == RStrip(LStrip(s))

RECURSIVE Join(_, _)
\* sep.join(parts) for a list of strings
Join(sep, parts) ==
    IF parts = <<>> THEN <<>>
    ELSE IF Len(parts) = 1 THEN parts[1]
    ELSE parts[1] \o sep \o Join(sep, Tail(parts))

NL == <<10>>

(***************************************************************************)
(* String literals of the program                                          *)
(***************************************************************************)
S_tesseract == <<116,101,115,115,101,114,97,99,116>>    \* "tesseract"
S_google == <<103,111,111,103,108,101>>    \* "google"
S_openai == <<111,112,101,110,97,105>>    \* "openai"
S_responses == <<114,101,115,112,111,110,115,101,115>>    \* "responses"
S_fullTextAnnotation ==    \* "fullTextAnnotation"
    <<102,117,108,108,84,101,120,116,65,110,110,111,116,97,116,105,111,110>>
S_text == <<116,101,120,116>>    \* "text"
S_output == <<111,117,116,112,117,116>>    \* "output"
S_content == <<99,111,110,116,101,110,116>>    \* "content"
S_type == <<116,121,112,101>>    \* "type"
S_output_text == <<111,117,116,112,117,116,95,116,101,120,116>>    \* "output_text"

(***************************************************************************)
(* JSON values as json.loads returns them                                  *)
(***************************************************************************)
JNull == [k |-> "null", v |-> <<>>]
JNum == [k |-> "num", v |-> <<55>>]
JStr(s) == [k |-> "str", v |-> s]
JList(xs) == [k |-> "list", v |-> xs]
JObj(pairs) == [k |-> "obj", v |-> pairs]
Invalid == [k |-> "invalid", v |-> <<>>]

IsDict(x) == x.k = "obj"
IsStr(x) == x.k = "str"

\* key in d
HasKey(d, key) == \E i \in 1..Len(d.v) : d.v[i][1] = key

\* d[key]; json.loads keeps the last of duplicate keys
Lookup(d, key) ==
    d.v[CHOOSE i \in 1..Len(d.v) :
            /\ d.v[i][1] = key
            /\ \A j \in (i+1)..Len(d.v) : d.v[j][1] # key][2]

\* d.get(key, default)
Get(d, key, default) == IF HasKey(d, key) THEN Lookup(d, key) ELSE default

\* `for e in x` succeeds on a list, a dict (its keys) and a str (its characters)
Iterable(x) == x.k \in {"list", "obj", "str"}

\* the keys of the dict json.loads built: each key once, in the order of
\* its first occurrence in the text
RECURSIVE DictKeys(_, _)
DictKeys(pairs, seen) ==
    IF pairs = <<>> THEN <<>>
    ELSE IF Head(pairs)[1] \in seen THEN DictKeys(Tail(pairs), seen)
    ELSE <<Head(pairs)[1]>> \o DictKeys(Tail(pairs), seen \cup {Head(pairs)[1]})

Elems(x) ==
    IF x.k = "list" THEN x.v
    ELSE IF x.k = "obj"
    THEN LET keys == DictKeys(x.v, {}) IN [i \in 1..Len(keys) |-> JStr(keys[i])]
    ELSE [i \in 1..Len(x.v) |-> JStr(<<x.v[i]>>)]

\* x[0] succeeds on a non-empty list or str; a dict of a JSON document has
\* only string keys, so x[0] raises KeyError
HasFirst(x) == x.k \in {"list", "str"} /\ Len(x.v) > 0

First(x) == IF x.k = "list" THEN x.v[1] ELSE JStr(<<x.v[1]>>)

\* outcome of a try block that computes `text`
Raised == [ok |-> FALSE, text |-> <<>>]
Computed(t) == [ok |-> TRUE, text |-> t]


(***************************************************************************)
(* run_google_vision, lines 108-114: the response-parsing try block        *)
(***************************************************************************)
\* variant: parsed["responses"][0]["fullTextAnnotation"]["text"]
GoogleExtract_Subscript(body) ==
    IF body.k = "invalid" THEN Raised
    ELSE IF ~IsDict(body) THEN Raised
    ELSE IF ~HasKey(body, S_responses) THEN Raised
    ELSE LET responses == Lookup(body, S_responses) IN
    IF ~HasFirst(responses) THEN Raised
    ELSE LET first == First(responses) IN
    IF ~IsDict(first) THEN Raised
    ELSE IF ~HasKey(first, S_fullTextAnnotation) THEN Raised
    ELSE LET annotation == Lookup(first, S_fullTextAnnotation) IN
    IF ~IsDict(annotation) THEN Raised
    ELSE IF ~HasKey(annotation, S_text) THEN Raised
    ELSE LET t == Lookup(annotation, S_text) IN
    IF ~IsStr(t) THEN Raised
    ELSE Computed(Strip(t.v))

GoogleExtract(body) ==
    IF body.k = "invalid" THEN Raised                      \* json.loads raises
    ELSE IF ~IsDict(body) THEN Raised                      \* parsed["responses"]: TypeError
    ELSE IF ~HasKey(body, S_responses) THEN Raised         \* KeyError
    ELSE LET responses == Lookup(body, S_responses) IN
    IF ~HasFirst(responses) THEN Raised                    \* [0]: IndexError, KeyError, TypeError
    ELSE LET first == First(responses) IN
    IF ~IsDict(first) THEN Raised                          \* .get: AttributeError
    ELSE LET annotation == Get(first, S_fullTextAnnotation, JObj(<<>>)) IN
    IF ~IsDict(annotation) THEN Raised                     \* .get: AttributeError
    ELSE LET t == Get(annotation, S_text, JStr(<<>>)) IN
    IF ~IsStr(t) THEN Raised                               \* .strip: AttributeError
    ELSE Computed(Strip(t.v))

(***************************************************************************)
(* run_openai_vision, lines 187-198: the response-parsing try block        *)
(***************************************************************************)
RECURSIVE CollectContent(_, _)
\* the inner loop (lines 192-194) over the remaining segments; acc is text_parts
CollectContent(segs, acc) ==
    IF segs = <<>> THEN [ok |-> TRUE, parts |-> acc]
    ELSE LET content == Head(segs) IN
         IF ~IsDict(content) THEN [ok |-> FALSE, parts |-> acc]
         ELSE IF Get(content, S_type, JNull) = JStr(S_output_text)
              THEN CollectContent(Tail(segs),
                                  Append(acc, Get(content, S_text, JStr(<<>>))))
              ELSE CollectContent(Tail(segs), acc)

RECURSIVE CollectOutput(_, _)
\* the outer loop (lines 191-194) over the remaining items
CollectOutput(items, acc) ==
    IF items = <<>> THEN [ok |-> TRUE, parts |-> acc]
    ELSE LET item == Head(items) IN
         IF ~IsDict(item) THEN [ok |-> FALSE, parts |-> acc]
         ELSE LET contents == Get(item, S_content, JList(<<>>)) IN
              IF ~Iterable(contents) THEN [ok |-> FALSE, parts |-> acc]
              ELSE LET r == CollectContent(Elems(contents), acc) IN
                   IF ~r.ok THEN r ELSE CollectOutput(Tail(items), r.parts)

\* line 195: "\n".join(text_parts).strip(); join raises on a non-str part
JoinParts(parts) ==
    IF \E i \in 1..Len(parts) : ~IsStr(parts[i]) THEN Raised
    ELSE Computed(Strip(Join(NL, [i \in 1..Len(parts) |-> parts[i].v])))

\* variant: parsed["output"] instead of parsed.get("output", [])
OpenAIExtract_Subscript(body) ==
    IF body.k = "invalid" THEN Raised
    ELSE IF ~IsDict(body) THEN Raised
    ELSE IF ~HasKey(body, S_output) THEN Raised
    ELSE LET output == Lookup(body, S_output) IN
    IF ~Iterable(output) THEN Raised
    ELSE LET r == CollectOutput(Elems(output), <<>>) IN
    IF ~r.ok THEN Raised ELSE JoinParts(r.parts)

OpenAIExtract(body) ==
    IF body.k = "invalid" THEN Raised                      \* json.loads raises
    ELSE IF ~IsDict(body) THEN Raised                      \* .get: AttributeError
    ELSE LET output == Get(body, S_output, JList(<<>>)) IN
    IF ~Iterable(output) THEN Raised                       \* for: TypeError
    ELSE LET r == CollectOutput(Elems(output), <<>>) IN
    IF ~r.ok THEN Raised ELSE JoinParts(r.parts)

(***************************************************************************)
(* Inputs: command lines, environment values, engine output, response      *)
(* bodies                                                                  *)
(***************************************************************************)
S_script == <<111,99,114,46,112,121>>    \* "ocr.py"
S_image == <<110,46,112,110,103>>    \* "n.png"

\* values of the optional second argument
ProviderArgs ==
    { S_google, S_openai, S_tesseract, <<>>,
      <<71,111,111,103,108,101>>,                  \* "Google"
      <<32,71,79,79,71,76,69,10>>,                 \* " GOOGLE\n"
      <<12,79,112,101,110,65,73,160>>,             \* "\fOpenAI" U+00A0
      <<103,111,111,103,108,101,13>>,              \* "google\r"
      <<9,103,111,79,103,108,101>>,                \* "\tgoOgle"
      <<8195,79,80,69,78,65,73,8233>>,             \* U+2003 "OPENAI" U+2029
      <<71,79,79,71,76,201>>,                      \* "GOOGL" U+00C9
      <<71,79,79,71,76,192>>,                      \* "GOOGL" U+00C0
      <<79,80,69,78,65,304>>,                      \* "OPENA" U+0130
      <<79,80,69,78,65,921>>,                      \* "OPENA" U+0399, Greek capital iota
      <<65319,79,79,71,76,69>>,                    \* U+FF27 "OOGLE", full-width G
      <<71,79,79,71,8490,69>>,                     \* "GOOG" U+212A "E", Kelvin sign
      <<913,931>>,                                 \* U+0391 U+03A3, a word-final capital sigma
      <<931>>,                                     \* U+03A3 alone
      <<913,931,913>>,                             \* U+0391 U+03A3 U+0391
      <<65,931,46>>,                               \* "A" U+03A3 ".", sigma before a case-ignorable
      <<103,111,111,103,108,101,56448>>,           \* "google" U+DC80, an undecodable byte of the command line
      <<32>>,                                      \* " "
      <<103,111,103,108,101>>,                     \* "gogle"
      <<111,112,101,110,32,97,105>>,               \* "open ai"
      <<103,111,111,103,108,101,50>> }             \* "google2"

\* sys.argv: the script name, then the arguments given
Argvs ==
    { <<S_script>>, <<S_script, S_image>> }
      \cup { <<S_script, S_image, p>> : p \in ProviderArgs }
      \cup { <<S_script, S_image, p, S_tesseract>> : p \in {S_google, <<>>} }

\* what os.environ.get finds: nothing, the empty string, a non-empty string
EnvVals == {"unset", "empty", "set"}

\* `if value:` on the result of os.environ.get
Truthy(e) == e = "set"

\* what the local engine may return
EngineTexts ==
    { <<>>, <<32>>, <<10,32,10>>, <<97>>,
      <<32,97,32,98,10>>, <<97,10,10,98>>,
      <<12>>, <<97,10,98,10,12>>, <<97,13,10>>,
      <<99,97,102,233>>, <<97,55296>> }

T_a == <<32,97,32>>
T_b == <<98,10>>

\* responses[0].fullTextAnnotation.text values
AnnotationTexts ==
    { <<>>, <<32,10>>, T_a, <<97,10,98>>,
      <<12>>, <<97,13,10>>, <<160,97,8232>>,
      <<99,97,102,233>>, <<97,55296>> }

Responses(first) == JObj(<< <<S_responses, JList(<<first>>)>> >>)

\* bodies the vision endpoint may return
GoogleBodies ==
    { Invalid, JNull, JNum, JStr(T_a), JList(<<>>), JObj(<<>>),
      JObj(<< <<S_responses, JList(<<>>)>> >>),
      JObj(<< <<S_responses, JNull>> >>),
      JObj(<< <<S_responses, JObj(<<>>)>> >>),
      JObj(<< <<S_responses, JStr(T_a)>> >>),
      JObj(<< <<S_text, JStr(T_a)>> >>),
      Responses(JNull), Responses(JStr(T_a)), Responses(JList(<<>>)),
      Responses(JObj(<<>>)),
      Responses(JObj(<< <<S_text, JStr(T_a)>> >>)),
      Responses(JObj(<< <<S_fullTextAnnotation, JNull>> >>)),
      Responses(JObj(<< <<S_fullTextAnnotation, JStr(T_a)>> >>)),
      Responses(JObj(<< <<S_fullTextAnnotation, JObj(<<>>)>> >>)),
      Responses(JObj(<< <<S_fullTextAnnotation, JObj(<< <<S_text, JNull>> >>)>> >>)),
      Responses(JObj(<< <<S_fullTextAnnotation, JObj(<< <<S_text, JNum>> >>)>> >>)),
      JObj(<< <<S_responses, JList(<<JObj(<<>>),
              JObj(<< <<S_fullTextAnnotation, JObj(<< <<S_text, JStr(T_b)>> >>)>> >>)>>)>> >>) }
      \cup { Responses(JObj(<< <<S_fullTextAnnotation, JObj(<< <<S_text, JStr(t)>> >>)>> >>)) :
                t \in AnnotationTexts }

\* content segments of a response of the documented shape
Seg(type, t) == JObj(<< <<S_type, JStr(type)>>, <<S_text, JStr(t)>> >>)
S_refusal == <<114,101,102,117,115,97,108>>    \* "refusal"
SegA == Seg(S_output_text, T_a)
SegB == Seg(S_output_text, T_b)
SegBlank == Seg(S_output_text, <<32>>)
SegOther == Seg(S_refusal, <<120>>)
GoodSegs == { SegA, SegB, SegOther }

SeqsUpTo(S, n) == UNION { [1..m -> S] : m \in 0..n }

Item(segs) == JObj(<< <<S_content, JList(segs)>> >>)
Output(items) == JObj(<< <<S_output, JList(items)>> >>)

ContentList(segs) == [i \in 1..Len(segs) |-> Item(segs[i])]

RECURSIVE TotalLen(_)
TotalLen(ss) == IF ss = <<>> THEN 0 ELSE Len(Head(ss)) + TotalLen(Tail(ss))

\* every response of the documented shape within the bounds
GoodBodies ==
    { Output(ContentList(segs)) :
        segs \in { ss \in SeqsUpTo(SeqsUpTo(GoodSegs, MaxSegs), MaxItems) :
                      TotalLen(ss) <= MaxSegs } }

\* segments, content lists, items and outputs off the documented shape
OddSegs ==
    { JNull, JStr(T_a), JList(<<>>), JObj(<<>>),
      JObj(<< <<S_type, JStr(S_output_text)>> >>),
      JObj(<< <<S_text, JStr(T_a)>> >>),
      JObj(<< <<S_type, JStr(S_output_text)>>, <<S_text, JNull>> >>),
      JObj(<< <<S_type, JStr(S_output_text)>>, <<S_text, JNum>> >>),
      JObj(<< <<S_type, JStr(S_refusal)>>, <<S_text, JNull>> >>),
      JObj(<< <<S_type, JNull>>, <<S_text, JStr(T_a)>> >>),
      SegBlank, Seg(S_output_text, <<>>),
      Seg(S_output_text, <<13,10>>), Seg(S_output_text, <<32,97,13,10>>),
      Seg(S_output_text, <<99,97,102,233>>), Seg(S_output_text, <<97,55296>>) }

OddContents ==
    { JList(<<z>>) : z \in OddSegs }
      \cup { JList(<<SegA, z>>) : z \in OddSegs }
      \cup { JList(<<z, SegB>>) : z \in OddSegs }
      \cup { JNull, JNum, JStr(<<>>), JStr(T_a), JObj(<<>>),
             JObj(<< <<S_type, JStr(S_output_text)>> >>) }

OddItems ==
    { JObj(<< <<S_content, c>> >>) : c \in OddContents }
      \cup { JNull, JNum, JStr(T_a), JList(<<>>), JObj(<<>>),
             JObj(<< <<S_type, JStr(S_output_text)>>, <<S_text, JStr(T_a)>> >>) }

OddOutputs ==
    { JList(<<i>>) : i \in OddItems }
      \cup { JList(<<Item(<<SegA>>), i>>) : i \in OddItems }
      \cup { JList(<<i, Item(<<SegB>>)>>) : i \in OddItems }
      \cup { JNull, JNum, JStr(<<>>), JStr(T_a), JObj(<<>>),
             JObj(<< <<S_content, JList(<<SegA>>)>> >>),
             JObj(<< <<S_content, JNull>>, <<S_text, JNull>>, <<S_content, JNum>> >>) }

OddBodies ==
    { JObj(<< <<S_output, o>> >>) : o \in OddOutputs }
      \cup { Invalid, JNull, JNum, JStr(T_a), JList(<<>>), JList(<<Output(<<>>)>>),
             JObj(<<>>), JObj(<< <<S_text, JStr(T_a)>> >>),
             JObj(<< <<S_content, JList(<<SegA>>)>> >>) }

\* bodies the responses endpoint may return
OpenAIBodies == GoodBodies \cup OddBodies

(***************************************************************************)
(* Exit codes of the two response-parsing except blocks                    *)
(***************************************************************************)
GoogleParseExit == 9
OpenAIParseExit == 9

(***************************************************************************)
(* The standard streams                                                    *)
(***************************************************************************)
\* a stream is open on a device that takes the bytes, is closed (the file
\* descriptor is closed at start-up, so sys.stdout or sys.stderr is None),
\* or is open on a device that refuses the bytes (a full disk, a reader
\* that went away)
Devices == {"ok", "closed", "full"}

\* encodings and error handlers of sys.stdout (locale, PYTHONIOENCODING)
Encodings == {"utf-8", "ascii", "latin-1"}
Handlers == {"strict", "ignore", "replace", "backslashreplace",
             "xmlcharrefreplace", "surrogateescape", "surrogatepass"}

\* the handler of sys.stderr, whatever the configuration
StderrHandler == "backslashreplace"

\* how the process was started, as far as print can tell; `immediate`:
\* a write reaches the device during print (python -u) and not at exit
Consoles ==
    [out : Devices, err : Devices, immediate : BOOLEAN,
     encoding : Encodings, errors : Handlers]

Surrogate(c) == c \in 55296..57343

\* the encoding has a byte sequence for the code point
Representable(c, enc) ==
    CASE enc = "ascii" -> c < 128
      [] enc = "latin-1" -> c < 256
      [] OTHER -> ~Surrogate(c)

HexDigit(n) == IF n < 10 THEN 48 + n ELSE 87 + n

RECURSIVE Hex(_, _)
\* n in hexadecimal, small letters, `width` digits
Hex(n, width) ==
    IF width = 0 THEN <<>> ELSE Append(Hex(n \div 16, width - 1), HexDigit(n % 16))

RECURSIVE Decimal(_)
Decimal(n) == IF n < 10 THEN <<48 + n>> ELSE Append(Decimal(n \div 10), 48 + (n % 10))

\* \xNN, \uNNNN or \UNNNNNNNN
BackslashEscape(c) ==
    IF c < 256 THEN <<92, 120>> \o Hex(c, 2)
    ELSE IF c < 65536 THEN <<92, 117>> \o Hex(c, 4)
    ELSE <<92, 85>> \o Hex(c, 8)

\* what the encoder makes of one code point: the characters the device
\* receives, or a UnicodeEncodeError.  surrogateescape turns U+DC80..U+DCFF
\* into the single byte 0x80..0xFF: a character in latin-1, and elsewhere a
\* byte outside the encoding, kept here as the code point that stands for
\* it; so is a surrogate that surrogatepass lets through.
EncodeChar(c, enc, errors) ==
    IF Representable(c, enc) THEN [ok |-> TRUE, chars |-> <<c>>]
    ELSE CASE errors = "ignore" -> [ok |-> TRUE, chars |-> <<>>]
           [] errors = "replace" -> [ok |-> TRUE, chars |-> <<63>>]
           [] errors = "backslashreplace" -> [ok |-> TRUE, chars |-> BackslashEscape(c)]
           [] errors = "xmlcharrefreplace" ->
                 [ok |-> TRUE, chars |-> <<38, 35>> \o Decimal(c) \o <<59>>]
           [] errors = "surrogateescape" ->
                 [ok |-> c \in 56448..56575,
                  chars |-> IF enc = "latin-1" THEN <<c - 56320>> ELSE <<c>>]
           [] errors = "surrogatepass" ->
                 [ok |-> enc = "utf-8" /\ Surrogate(c), chars |-> <<c>>]
           [] OTHER -> [ok |-> FALSE, chars |-> <<>>]

RECURSIVE Encode(_, _, _)
\* str.encode(enc, errors) for the whole string
Encode(t, enc, errors) ==
    IF t = <<>> THEN [ok |-> TRUE, chars |-> <<>>]
    ELSE LET h == EncodeChar(Head(t), enc, errors)
             r == Encode(Tail(t), enc, errors)
         IN [ok |-> h.ok /\ r.ok, chars |-> h.chars \o r.chars]

\* one thing that arrived on a stream: the text of print(text) with its
\* newline, the diagnostic of a failure exit with the text of the
\* exception, or a message of the interpreter
Entry(kind, msg, chars) == [kind |-> kind, msg |-> msg, chars |-> chars]

\* exit status of the interpreter after an uncaught exception
UncaughtExit == 1

\* exit status of the interpreter when a standard stream cannot be flushed
FlushFailExit == 120

\* an exception leaves main: the interpreter writes the traceback to
\* sys.stderr if there is one and ends
Uncaught(con, exc) ==
    [out |-> <<>>,
     err |-> IF con.err = "ok" THEN << Entry("traceback", exc, <<>>) >> ELSE <<>>,
     exit |-> IF con.err = "full" /\ ~con.immediate THEN FlushFailExit ELSE UncaughtExit]

\* print(line, file=stream) followed by `return code`: what arrives on the
\* two streams and the exit status.  print(file=None) writes to sys.stdout,
\* and does nothing when sys.stdout is None.
Written(con, stream, kind, msg, line, code) ==
    LET target == IF stream = "err" /\ con.err = "closed" THEN "out" ELSE stream
        dev == IF target = "out" THEN con.out ELSE con.err
        enc == Encode(line, con.encoding,
                      IF target = "out" THEN con.errors ELSE StderrHandler)
        entry == Entry(kind, msg, enc.chars)
    IN IF dev = "closed" THEN [out |-> <<>>, err |-> <<>>, exit |-> code]
       ELSE IF ~enc.ok THEN Uncaught(con, "UnicodeEncodeError")
       ELSE IF dev = "ok"
       THEN [out |-> IF target = "out" THEN <<entry>> ELSE <<>>,
             err |-> IF target = "err" THEN <<entry>> ELSE <<>>,
             exit |-> code]
       ELSE IF con.immediate THEN Uncaught(con, "OSError")
       ELSE [out |-> <<>>,
             err |-> IF target = "out" /\ con.err = "ok"
                     THEN << Entry("ignored", "OSError", <<>>) >> ELSE <<>>,
             exit |-> FlushFailExit]

\* texts of the exception a diagnostic includes
ExcTexts == { <<101,114,114>>, <<78,111,32,102,105,108,101,58,32,233,46,112,110,103>> }

\* a diagnostic without the text of an exception
NoExc == { <<>> }

(***************************************************************************)
(* State of one invocation                                                 *)
(***************************************************************************)
VARIABLES
    argv,          \* sys.argv
    pc,            \* the statement the process is at
    provider,      \* main's `provider`
    path,          \* the function that runs the recognition: local, google, openai
    apiKey,        \* what os.environ.get returned for the credential
    model,         \* run_openai_vision's `model`
    tesseractCmd,  \* pytesseract.pytesseract.tesseract_cmd
    fileOpen,      \* the image file handle is open
    connOpen,      \* the HTTP response/connection is open
    body,          \* the decoded response body
    text,          \* `text`
    stdout,        \* what arrived on standard output, one entry per write
    stderr,        \* what arrived on standard error, one entry per write
    exitCode,      \* exit status of the process; NotExited while it runs
    trace          \* the stages attempted so far, in order

vars == <<argv, pc, provider, path, apiKey, model, tesseractCmd, fileOpen,
          connOpen, body, text, stdout, stderr, exitCode, trace>>

NotExited == -1

Init ==
    /\ argv \in Argvs
    /\ pc = "start"
    /\ provider = <<>>
    /\ path = "none"
    /\ apiKey = "unread"
    /\ model = "unread"
    /\ tesseractCmd = "default"
    /\ fileOpen = FALSE
    /\ connOpen = FALSE
    /\ body = JNull
    /\ text = <<>>
    /\ stdout = <<>>
    /\ stderr = <<>>
    /\ exitCode = NotExited
    /\ trace = <<>>

\* the process ends with what the last print and the interpreter did
Exit(w) ==
    /\ stdout' = stdout \o w.out
    /\ stderr' = stderr \o w.err
    /\ exitCode' = w.exit
    /\ pc' = "done"

\* print(f"{msg}: {exc}", file=sys.stderr); return code
Fail(code, msg, excs) ==
    \E con \in Consoles, exc \in excs :
        Exit(Written(con, "err", "diagnostic", msg, exc, code))

\* a step that neither prints nor returns
Goto(next) ==
    /\ pc' = next
    /\ UNCHANGED <<stdout, stderr, exitCode>>

\* if text: print(text); return 0.  print is outside every try block, so
\* an exception it raises leaves main.
Emit(t) ==
    IF t = <<>>
    THEN Exit([out |-> <<>>, err |-> <<>>, exit |-> 0])
    ELSE \E con \in Consoles :
            Exit(Written(con, "out", "text", "", t \o NL, 0))

Attempt(stage) == trace' = Append(trace, stage)

(***************************************************************************)
(* main                                                                    *)
(***************************************************************************)
Main_CheckArgs ==
    /\ pc = "start"
    /\ Attempt("args")
    /\ IF Len(argv) < 2
       THEN Fail(2, "Missing image path", NoExc)
       ELSE Goto("resolve")
    /\ UNCHANGED <<argv, provider, path, apiKey, model, tesseractCmd, fileOpen,
                   connOpen, body, text>>

\* variant: the argument is lower-cased but not trimmed
ResolveProvider_NoStrip(args) ==
    IF Len(args) > 2 THEN Lower(args[3]) ELSE S_tesseract

\* lines 20-22
ResolveProvider(args) ==
    IF Len(args) > 2 THEN Lower(Strip(args[3])) ELSE S_tesseract

\* lines 24-28
Dispatch(p) ==
    IF p = S_google THEN "google"
    ELSE IF p = S_openai THEN "openai"
    ELSE "local"

Main_Resolve ==
    /\ pc = "resolve"
    /\ Attempt("resolve")
    /\ provider' = ResolveProvider(argv)
    /\ path' = Dispatch(provider')
    /\ Goto(CASE path' = "google" -> "g_import"
              [] path' = "openai" -> "o_import"
              [] OTHER -> "l_import")
    /\ UNCHANGED <<argv, apiKey, model, tesseractCmd, fileOpen, connOpen, body, text>>

Local_Import ==
    /\ pc = "l_import"
    /\ Attempt("import")
    /\ \E ok \in BOOLEAN :
          IF ok THEN Goto("l_env") ELSE Fail(3, "Missing dependencies", ExcTexts)
    /\ UNCHANGED <<argv, provider, path, apiKey, model, tesseractCmd, fileOpen,
                   connOpen, body, text>>

Local_Env ==
    /\ pc = "l_env"
    /\ Attempt("env")
    /\ \E e \in EnvVals :
          tesseractCmd' = IF Truthy(e) THEN "override" ELSE tesseractCmd
    /\ Goto("l_open")
    /\ UNCHANGED <<argv, provider, path, apiKey, model, fileOpen, connOpen, body, text>>

Local_Open ==
    /\ pc = "l_open"
    /\ Attempt("open")
    /\ \E ok \in BOOLEAN :
          IF ok
          THEN fileOpen' = TRUE /\ Goto("l_recognize")
          ELSE fileOpen' = FALSE /\ Fail(4, "Cannot open image", ExcTexts)
    /\ UNCHANGED <<argv, provider, path, apiKey, model, tesseractCmd, connOpen, body, text>>

\* pytesseract.image_to_string(img).  main never closes img: the handle is
\* left to the library, which closes it when it loads a single-frame image
\* and keeps it for a multi-frame one or when it fails before loading.
Local_Recognize ==
    /\ pc = "l_recognize"
    /\ Attempt("recognize")
    /\ \E closedByLoad \in BOOLEAN : fileOpen' = (fileOpen /\ ~closedByLoad)
    /\ \/ \E t \in EngineTexts : text' = t /\ Goto("l_emit")
       \/ text' = text /\ Fail(5, "OCR failed", ExcTexts)
    /\ UNCHANGED <<argv, provider, path, apiKey, model, tesseractCmd, connOpen, body>>

Local_Emit ==
    /\ pc = "l_emit"
    /\ Attempt("emit")
    /\ text' = Strip(text)
    /\ Emit(text')
    /\ UNCHANGED <<argv, provider, path, apiKey, model, tesseractCmd, fileOpen,
                   connOpen, body>>

(***************************************************************************)
(* run_google_vision                                                          *)
(***************************************************************************)
Google_Import ==
    /\ pc = "g_import"
    /\ Attempt("import")
    /\ \E ok \in BOOLEAN :
          IF ok THEN Goto("g_key") ELSE Fail(6, "Missing stdlib", ExcTexts)
    /\ UNCHANGED <<argv, provider, path, apiKey, model, tesseractCmd, fileOpen, connOpen, body, text>>

\* lines 76-79
Google_Key ==
    /\ pc = "g_key"
    /\ Attempt("env")
    /\ \E e \in EnvVals :
          /\ apiKey' = e
          /\ IF Truthy(e) THEN Goto("g_open") ELSE Fail(7, "Missing GOOGLE_OCR_KEY", NoExc)
    /\ UNCHANGED <<argv, provider, path, model, tesseractCmd, fileOpen, connOpen, body, text>>

\* open(image_path, "rb") entering the with block
Google_Open ==
    /\ pc = "g_open"
    /\ Attempt("open")
    /\ \E ok \in BOOLEAN :
          IF ok
          THEN fileOpen' = TRUE /\ Goto("g_read")
          ELSE fileOpen' = FALSE /\ Fail(4, "Cannot open image", ExcTexts)
    /\ UNCHANGED <<argv, provider, path, apiKey, model, tesseractCmd, connOpen, body, text>>

\* f.read() and the encoding; the with block closes f on either exit
Google_Read ==
    /\ pc = "g_read"
    /\ Attempt("read")
    /\ fileOpen' = FALSE
    /\ \E ok \in BOOLEAN :
          IF ok THEN Goto("g_connect") ELSE Fail(4, "Cannot open image", ExcTexts)
    /\ UNCHANGED <<argv, provider, path, apiKey, model, tesseractCmd, connOpen, body, text>>

\* variant: a failed request is attempted again
Google_Connect_Retry ==
    /\ pc = "g_connect"
    /\ Attempt("connect")
    /\ \E ok \in BOOLEAN :
          IF ok
          THEN connOpen' = TRUE /\ Goto("g_recv")
          ELSE connOpen' = FALSE /\ Goto("g_connect")
    /\ UNCHANGED <<argv, provider, path, apiKey, model, tesseractCmd, fileOpen, body, text>>

\* urllib.request.urlopen(req, timeout=...) entering the with block
Google_Connect ==
    /\ pc = "g_connect"
    /\ Attempt("connect")
    /\ \E ok \in BOOLEAN :
          IF ok
          THEN connOpen' = TRUE /\ Goto("g_recv")
          ELSE connOpen' = FALSE /\ Fail(8, "Google Vision request failed", ExcTexts)
    /\ UNCHANGED <<argv, provider, path, apiKey, model, tesseractCmd, fileOpen, body, text>>

\* resp.read().decode("utf-8"); the with block closes resp on either exit
Google_Recv ==
    /\ pc = "g_recv"
    /\ Attempt("recv")
    /\ connOpen' = FALSE
    /\ \/ \E b \in GoogleBodies : body' = b /\ Goto("g_parse")
       \/ body' = body /\ Fail(8, "Google Vision request failed", ExcTexts)
    /\ UNCHANGED <<argv, provider, path, apiKey, model, tesseractCmd, fileOpen, text>>

Google_Parse ==
    /\ pc = "g_parse"
    /\ Attempt("parse")
    /\ LET r == GoogleExtract(body) IN
          IF r.ok
          THEN text' = r.text /\ Goto("g_emit")
          ELSE text' = text /\ Fail(GoogleParseExit, "Google Vision parse failed", ExcTexts)
    /\ UNCHANGED <<argv, provider, path, apiKey, model, tesseractCmd, fileOpen, connOpen, body>>

Google_Emit ==
    /\ pc = "g_emit"
    /\ Attempt("emit")
    /\ Emit(text)
    /\ UNCHANGED <<argv, provider, path, apiKey, model, tesseractCmd, fileOpen, connOpen, body, text>>

(***************************************************************************)
(* run_openai_vision                                                          *)
(***************************************************************************)
OpenAI_Import ==
    /\ pc = "o_import"
    /\ Attempt("import")
    /\ \E ok \in BOOLEAN :
          IF ok THEN Goto("o_key") ELSE Fail(6, "Missing stdlib", ExcTexts)
    /\ UNCHANGED <<argv, provider, path, apiKey, model, tesseractCmd, fileOpen, connOpen, body, text>>

\* lines 131-136: the credential, then the model name (default gpt-4o-mini)
OpenAI_Key ==
    /\ pc = "o_key"
    /\ Attempt("env")
    /\ \E e \in EnvVals :
          /\ apiKey' = e
          /\ IF Truthy(e)
             THEN /\ \E m \in EnvVals :
                        model' = CASE m = "unset" -> "gpt-4o-mini"
                                   [] m = "empty" -> ""
                                   [] OTHER -> "custom"
                  /\ Goto("o_open")
             ELSE /\ model' = model
                  /\ Fail(7, "Missing OPENAI_API_KEY", NoExc)
    /\ UNCHANGED <<argv, provider, path, tesseractCmd, fileOpen, connOpen, body, text>>

\* open(image_path, "rb") entering the with block
OpenAI_Open ==
    /\ pc = "o_open"
    /\ Attempt("open")
    /\ \E ok \in BOOLEAN :
          IF ok
          THEN fileOpen' = TRUE /\ Goto("o_read")
          ELSE fileOpen' = FALSE /\ Fail(4, "Cannot open image", ExcTexts)
    /\ UNCHANGED <<argv, provider, path, apiKey, model, tesseractCmd, connOpen, body, text>>

\* f.read() and the encoding; the with block closes f on either exit
OpenAI_Read ==
    /\ pc = "o_read"
    /\ Attempt("read")
    /\ fileOpen' = FALSE
    /\ \E ok \in BOOLEAN :
          IF ok THEN Goto("o_connect") ELSE Fail(4, "Cannot open image", ExcTexts)
    /\ UNCHANGED <<argv, provider, path, apiKey, model, tesseractCmd, connOpen, body, text>>

\* urllib.request.urlopen(req, timeout=...) entering the with block
OpenAI_Connect ==
    /\ pc = "o_connect"
    /\ Attempt("connect")
    /\ \E ok \in BOOLEAN :
          IF ok
          THEN connOpen' = TRUE /\ Goto("o_recv")
          ELSE connOpen' = FALSE /\ Fail(8, "OpenAI request failed", ExcTexts)
    /\ UNCHANGED <<argv, provider, path, apiKey, model, tesseractCmd, fileOpen, body, text>>

\* resp.read().decode("utf-8"); the with block closes resp on either exit
OpenAI_Recv ==
    /\ pc = "o_recv"
    /\ Attempt("recv")
    /\ connOpen' = FALSE
    /\ \/ \E b \in OpenAIBodies : body' = b /\ Goto("o_parse")
       \/ body' = body /\ Fail(8, "OpenAI request failed", ExcTexts)
    /\ UNCHANGED <<argv, provider, path, apiKey, model, tesseractCmd, fileOpen, text>>

\* variant: the parse failure of this path gets an exit code of its own
OpenAI_Parse_OwnCode ==
    /\ pc = "o_parse"
    /\ Attempt("parse")
    /\ LET r == OpenAIExtract(body) IN
          IF r.ok
          THEN text' = r.text /\ Goto("o_emit")
          ELSE text' = text /\ Fail(10, "OpenAI parse failed", ExcTexts)
    /\ UNCHANGED <<argv, provider, path, apiKey, model, tesseractCmd, fileOpen, connOpen, body>>

OpenAI_Parse ==
    /\ pc = "o_parse"
    /\ Attempt("parse")
    /\ LET r == OpenAIExtract(body) IN
          IF r.ok
          THEN text' = r.text /\ Goto("o_emit")
          ELSE text' = text /\ Fail(OpenAIParseExit, "OpenAI parse failed", ExcTexts)
    /\ UNCHANGED <<argv, provider, path, apiKey, model, tesseractCmd, fileOpen, connOpen, body>>

OpenAI_Emit ==
    /\ pc = "o_emit"
    /\ Attempt("emit")
    /\ Emit(text)
    /\ UNCHANGED <<argv, provider, path, apiKey, model, tesseractCmd, fileOpen, connOpen, body, text>>

Next ==
    \/ Main_CheckArgs \/ Main_Resolve
    \/ Local_Import \/ Local_Env \/ Local_Open \/ Local_Recognize \/ Local_Emit
    \/ Google_Import \/ Google_Key \/ Google_Open \/ Google_Read
    \/ Google_Connect \/ Google_Recv \/ Google_Parse \/ Google_Emit
    \/ OpenAI_Import \/ OpenAI_Key \/ OpenAI_Open \/ OpenAI_Read
    \/ OpenAI_Connect \/ OpenAI_Recv \/ OpenAI_Parse \/ OpenAI_Emit

Spec == Init /\ [][Next]_vars

(***************************************************************************)
(* Properties                                                              *)
(***************************************************************************)
LocalStages == <<"args", "resolve", "import", "env", "open", "recognize", "emit">>
RemoteStages == <<"args", "resolve", "import", "env", "open", "read",
                  "connect", "recv", "parse", "emit">>

StagesOf(p) == IF p \in {"google", "openai"} THEN RemoteStages ELSE LocalStages

Attempted(stage) == \E i \in 1..Len(trace) : trace[i] = stage

LastStage == trace[Len(trace)]

\* the diagnostics that arrived on a stream
Diagnostics(stream) ==
    { stream[i].msg : i \in { j \in 1..Len(stream) : stream[j].kind = "diagnostic" } }

\* C1: on every path the stages attempted so far are an initial part of the
\* path's fixed stage list (fixed order, none skipped, none twice), a run
\* that has ended takes no further stage, a credential found missing is
\* followed by no file read and no request, and an exit code names the
\* stage the run stopped at: 7 the credential, 4 the image file (no request
\* and no recognition were attempted), 8 the transport (no parsing was
\* attempted), 9 the parsing, 0 the output.
C1_StagesInOrderNoRetry ==
    /\ Len(trace) <= Len(StagesOf(path))
    /\ trace = SubSeq(StagesOf(path), 1, Len(trace))
    /\ exitCode # NotExited <=> pc = "done"
    /\ apiKey \in {"unset", "empty"} =>
          /\ pc = "done" /\ LastStage = "env"
          /\ ~Attempted("open") /\ ~Attempted("read")
          /\ ~Attempted("connect") /\ ~Attempted("recv")
    /\ exitCode = 2 => LastStage = "args"
    /\ exitCode \in {3, 6} => LastStage = "import"
    /\ exitCode = 7 => LastStage = "env" /\ apiKey \in {"unset", "empty"}
    /\ exitCode = 4 =>
          /\ LastStage \in {"open", "read"}
          /\ ~Attempted("connect") /\ ~Attempted("recv") /\ ~Attempted("recognize")
    /\ exitCode = 5 => LastStage = "recognize"
    /\ exitCode = 8 =>
          /\ LastStage \in {"connect", "recv"}
          /\ ~Attempted("parse")
    /\ exitCode = 9 => LastStage = "parse"
    /\ exitCode = 0 => LastStage = "emit"

\* a run of the google path that stopped at the missing credential
C1_Witness ==
    /\ path = "google" /\ exitCode = 7 /\ apiKey = "unset"
    /\ trace = <<"args", "resolve", "import", "env">>

\* C2: a run that ended with one of the exit codes 2..9 wrote nothing to
\* standard output and a diagnostic to standard error; standard output is
\* written only by a run that ends with exit code 0.
C2_FailuresSilentOnStdout ==
    /\ exitCode \in 2..9 => /\ stdout = <<>>
                            /\ Diagnostics(stderr) # {}
    /\ stdout # <<>> => exitCode = 0

\* the run ended in the except block of the response parsing
ParseFailed == pc = "done" /\ LastStage = "parse"

\* C3 as stated: a parse failure of the openai path ends with an exit code
\* other than the one the google path returns for its parse failure.
C3_ParseExitDistinct ==
    (path = "openai" /\ ParseFailed) => exitCode # GoogleParseExit

\* C3 amended: a parse failure ends either remote path with the same exit
\* code 9, and the two paths differ only in the diagnostic; the exit status
\* is another one, 1 or 120 on either path, only when the diagnostic did
\* not arrive on a stream.
C3_ParseExitShared ==
    ParseFailed =>
        /\ path \in {"google", "openai"}
        /\ GoogleParseExit = OpenAIParseExit
        /\ exitCode \in {GoogleParseExit, UncaughtExit, FlushFailExit}
        /\ Diagnostics(stdout \o stderr) \subseteq
              { IF path = "openai" THEN "OpenAI parse failed"
                ELSE "Google Vision parse failed" }
        /\ Diagnostics(stdout \o stderr) # {} => exitCode = GoogleParseExit

\* a malformed body on the openai path
C3_Witness ==
    /\ path = "openai" /\ body = Invalid /\ ParseFailed /\ exitCode = 9
    /\ Diagnostics(stderr) = {"OpenAI parse failed"}

\* C4: when the run has ended, on any path and with any exit code, neither
\* the image file handle nor the connection is still open.
C4_ReleasedAtExit ==
    pc = "done" => ~fileOpen /\ ~connOpen

\* C5: a command line without an image path ends with exit code 2 right
\* after the argument check: no provider was resolved, no import, no
\* environment read, no file open and no request took place.
C5_NoArgsExit2 ==
    (Len(argv) < 2 /\ pc # "start") =>
        /\ pc = "done" /\ exitCode = 2
        /\ trace = <<"args">>
        /\ path = "none" /\ provider = <<>>
        /\ apiKey = "unread" /\ model = "unread" /\ tesseractCmd = "default"
        /\ ~fileOpen /\ ~connOpen

AllWhitespace(s) == \A i \in 1..Len(s) : s[i] \in Whitespace

\* the capital of an ASCII small letter
UpperOf(c) == IF c \in 97..122 THEN c - 32 ELSE c

\* s is the word w in any mix of cases, with whitespace around it
Spells(s, w) ==
    \E i \in 0..Len(s) :
        /\ i + Len(w) <= Len(s)
        /\ AllWhitespace(SubSeq(s, 1, i))
        /\ AllWhitespace(SubSeq(s, i + Len(w) + 1, Len(s)))
        /\ \A j \in 1..Len(w) : s[i + j] \in {w[j], UpperOf(w[j])}

\* C6: once the provider is resolved, the google path runs exactly when a
\* second argument is given that spells "google" up to case and surrounding
\* whitespace, the openai path exactly when it spells "openai", and the
\* local path in every other case (absent, empty, anything else); the
\* process is in the one path selected and in no other.
C6_ProviderResolution ==
    path # "none" =>
        /\ path \in {"local", "google", "openai"}
        /\ path = "google" <=> (Len(argv) > 2 /\ Spells(argv[3], S_google))
        /\ path = "openai" <=> (Len(argv) > 2 /\ Spells(argv[3], S_openai))
        /\ path = "local" <=>
              (Len(argv) <= 2 \/ (~Spells(argv[3], S_google) /\ ~Spells(argv[3], S_openai)))
        /\ pc \in CASE path = "google" ->
                        {"g_import", "g_key", "g_open", "g_read", "g_connect",
                         "g_recv", "g_parse", "g_emit", "done"}
                    [] path = "openai" ->
                        {"o_import", "o_key", "o_open", "o_read", "o_connect",
                         "o_recv", "o_parse", "o_emit", "done"}
                    [] OTHER ->
                        {"l_import", "l_env", "l_open", "l_recognize", "l_emit", "done"}

\* an argument that needs both the trim and the lower-casing
C6_Witness ==
    /\ Len(argv) > 2 /\ argv[3] = <<32,71,79,79,71,76,69,10>>
    /\ path = "google" /\ pc = "g_import"

\* the keys of a JSON object
Keys(d) == { d.v[i][1] : i \in 1..Len(d.v) }

\* the value a JSON object holds under a key it has
ValueOf(d, key) ==
    LET at == { i \in 1..Len(d.v) : d.v[i][1] = key }
    IN d.v[CHOOSE i \in at : \A j \in at : j <= i][2]

\* the body is an object whose `responses` is a list with a first entry
\* that is an object
HasFirstResponse(b) ==
    /\ b.k = "obj" /\ S_responses \in Keys(b)
    /\ ValueOf(b, S_responses).k = "list"
    /\ Len(ValueOf(b, S_responses).v) >= 1
    /\ ValueOf(b, S_responses).v[1].k = "obj"

FirstResponse(b) == ValueOf(b, S_responses).v[1]

\* the structure responses[0].fullTextAnnotation.text, both keys optional
GoogleShape(b) ==
    /\ HasFirstResponse(b)
    /\ S_fullTextAnnotation \in Keys(FirstResponse(b)) =>
          LET a == ValueOf(FirstResponse(b), S_fullTextAnnotation) IN
          /\ a.k = "obj"
          /\ S_text \in Keys(a) => ValueOf(a, S_text).k = "str"

\* C7: on the google path, once parsing was attempted, a body whose first
\* `responses` entry is an object without a fullTextAnnotation key is no
\* parse failure: the text is empty, nothing is printed and the run ends
\* with exit code 0; exit code 9 occurs only for a body that is not JSON
\* or does not have the structure responses[0].fullTextAnnotation.text.
C7_NoAnnotationIsEmptySuccess ==
    (path = "google" /\ Attempted("parse")) =>
        /\ (HasFirstResponse(body) /\ S_fullTextAnnotation \notin Keys(FirstResponse(body)))
              => /\ exitCode \in {NotExited, 0}
                 /\ text = <<>> /\ stdout = <<>> /\ stderr = <<>>
                 /\ pc = "done" => exitCode = 0
        /\ exitCode = 9 => (body.k = "invalid" \/ ~GoogleShape(body))

C7_Witness ==
    /\ path = "google" /\ pc = "done" /\ exitCode = 0
    /\ body = Responses(JObj(<<>>)) /\ stdout = <<>>

\* the response has the documented shape: output is a list of objects whose
\* content is a list of objects with a string type and a string text
WellFormed(b) ==
    /\ b.k = "obj" /\ S_output \in Keys(b)
    /\ LET out == ValueOf(b, S_output) IN
       /\ out.k = "list"
       /\ \A i \in 1..Len(out.v) :
             /\ out.v[i].k = "obj" /\ S_content \in Keys(out.v[i])
             /\ LET c == ValueOf(out.v[i], S_content) IN
                /\ c.k = "list"
                /\ \A j \in 1..Len(c.v) :
                      /\ c.v[j].k = "obj"
                      /\ Keys(c.v[j]) = {S_type, S_text}
                      /\ ValueOf(c.v[j], S_type).k = "str"
                      /\ ValueOf(c.v[j], S_text).k = "str"

RECURSIVE Flatten(_)
Flatten(ss) == IF ss = <<>> THEN <<>> ELSE Head(ss) \o Flatten(Tail(ss))

\* of a well-formed response: every segment of every item, in order
AllSegments(b) ==
    LET out == ValueOf(b, S_output).v
    IN Flatten([i \in 1..Len(out) |-> ValueOf(out[i], S_content).v])

IsOutputText(seg) == ValueOf(seg, S_type).v = S_output_text

\* the reference text: the output_text segments' texts joined by a newline,
\* the joined string trimmed at its two ends
ReferenceText(b) ==
    LET picked == SelectSeq(AllSegments(b), IsOutputText)
    IN Strip(Join(NL, [i \in 1..Len(picked) |-> ValueOf(picked[i], S_text).v]))

\* C8: on the openai path, once parsing was attempted on a well-formed
\* response, parsing did not fail, `text` is the reference text, and the
\* finished run has exit code 0 and printed the reference text once if it
\* is non-empty and nothing if it is empty.
C8_TextIsReference ==
    (path = "openai" /\ Attempted("parse") /\ WellFormed(body)) =>
        /\ exitCode \in {NotExited, 0}
        /\ text = ReferenceText(body)
        /\ pc = "done" =>
              /\ exitCode = 0
              /\ stdout = IF ReferenceText(body) = <<>> THEN <<>>
                          ELSE << Entry("text", "", ReferenceText(body) \o NL) >>

\* C9: a run in which every stage succeeded ends with exit code 0 and
\* nothing on standard error; it wrote nothing to standard output if the
\* trimmed text is empty and the trimmed text exactly once otherwise.
C9_SuccessEmitsTrimmedText ==
    (pc = "done" /\ Attempted("emit")) =>
        /\ exitCode = 0 /\ stderr = <<>>
        /\ text = Strip(text)
        /\ stdout = IF text = <<>> THEN <<>> ELSE << Entry("text", "", text \o NL) >>

\* what a loop of the parser runs over: the elements of a list, the keys of
\* an object, the characters of a string
Members(x) ==
    IF x.k = "list" THEN { x.v[i] : i \in 1..Len(x.v) }
    ELSE IF x.k = "obj" THEN { JStr(key) : key \in Keys(x) }
    ELSE IF x.k = "str" THEN { JStr(<<x.v[i]>>) : i \in 1..Len(x.v) }
    ELSE {}

CanIterate(x) == x.k \in {"list", "obj", "str"}

ItemsOf(b) == IF S_output \in Keys(b) THEN Members(ValueOf(b, S_output)) ELSE {}

SegmentsOf(item) ==
    IF item.k = "obj" /\ S_content \in Keys(item)
    THEN Members(ValueOf(item, S_content)) ELSE {}

TypedOutputText(seg) ==
    /\ seg.k = "obj" /\ S_type \in Keys(seg)
    /\ ValueOf(seg, S_type) = JStr(S_output_text)

\* one of the listed defects: the top level, an item or a segment is not an
\* object, output or content cannot be iterated, a collected text is not a
\* string
OpenAIDefect(b) ==
    \/ b.k # "obj"
    \/ /\ b.k = "obj"
       /\ \/ S_output \in Keys(b) /\ ~CanIterate(ValueOf(b, S_output))
          \/ \E item \in ItemsOf(b) :
                \/ item.k # "obj"
                \/ S_content \in Keys(item) /\ ~CanIterate(ValueOf(item, S_content))
                \/ \E seg \in SegmentsOf(item) :
                      \/ seg.k # "obj"
                      \/ /\ TypedOutputText(seg)
                         /\ S_text \in Keys(seg)
                         /\ ValueOf(seg, S_text).k # "str"

\* an object without output, or whose items are objects without content, or
\* whose items are objects with lists of object segments none of which has
\* type output_text
OpenAINothingToCollect(b) ==
    /\ b.k = "obj"
    /\ \/ S_output \notin Keys(b)
       \/ /\ ValueOf(b, S_output).k = "list"
          /\ \A item \in ItemsOf(b) :
                /\ item.k = "obj"
                /\ \/ S_content \notin Keys(item)
                   \/ /\ ValueOf(item, S_content).k = "list"
                      /\ \A seg \in SegmentsOf(item) :
                            seg.k = "obj" /\ ~TypedOutputText(seg)

\* C10: on the openai path, once parsing was attempted, a body with nothing
\* to collect is no parse failure (empty text, nothing printed, exit code 0
\* at the end), and exit code 9 occurs only for a body that is not JSON or
\* has one of the listed defects.
C10_LenientParse ==
    (path = "openai" /\ Attempted("parse")) =>
        /\ (body.k # "invalid" /\ OpenAINothingToCollect(body))
              => /\ exitCode \in {NotExited, 0}
                 /\ text = <<>> /\ stdout = <<>> /\ stderr = <<>>
                 /\ pc = "done" => exitCode = 0
        /\ exitCode = 9 => (body.k = "invalid" \/ OpenAIDefect(body))

\* an object without an output key
C10_Witness ==
    /\ path = "openai" /\ pc = "done" /\ exitCode = 0
    /\ body = JObj(<< <<S_text, JStr(T_a)>> >>) /\ stdout = <<>>

============================================================================
